---- MODULE Spec2Model ----
(***************************************************************************)
(* Model of smart_commit.py: list the staged files, classify the change,   *)
(* compose a commit message, confirm/edit/cancel it, run git commit.       *)
(*                                                                         *)
(* Python strings are modelled as sequences of one-character strings, so   *)
(* that endswith, lower, strip, split and join are computed character by   *)
(* character as the interpreter does.                                      *)
(***************************************************************************)
EXTENDS Integers, Sequences, FiniteSets, TLC

VARIABLES pc, listStatus, files, commit_type, title, body, lines, consumed,
          out, exitCode, exc, listCalls, commitCalls, cmd

vars == <<pc, listStatus, files, commit_type, title, body, lines, consumed,
          out, exitCode, exc, listCalls, commitCalls, cmd>>

----------------------------------------------------------------------------
(* Bounds *)

MaxFiles == 3
MaxLines == 3

----------------------------------------------------------------------------
(* String literals of the program *)

NL == "\n"

DOCS == <<"d", "o", "c", "s">>
TEST == <<"t", "e", "s", "t">>
FEAT == <<"f", "e", "a", "t">>
CHORE == <<"c", "h", "o", "r", "e">>
TESTS == <<"t", "e", "s", "t", "s">>
EXT_MD == <<".", "m", "d">>
YES == <<"y", "e", "s">>
EDIT == <<"e", "d", "i", "t">>
MODIFIED == <<"-", " ", "M", "o", "d", "i", "f", "i", "e", "d", ":", " ">>
UPDATE == <<":", " ", "u", "p", "d", "a", "t", "e", " ">>
FILES_SUFFIX == <<" ", "f", "i", "l", "e", "s">>
GIT == <<"g", "i", "t">>
COMMIT == <<"c", "o", "m", "m", "i", "t">>
DASH_M == <<"-", "m">>

\* line 21: [".py", ".js", ".ts", ".cpp", ".h"]
SourceExts == <<<<".", "p", "y">>, <<".", "j", "s">>, <<".", "t", "s">>,
                <<".", "c", "p", "p">>, <<".", "h">>>>

\* line 23: ["package.json", "package-lock.json", "pyproject.toml"]
ManifestNames ==
    <<<<"p", "a", "c", "k", "a", "g", "e", ".", "j", "s", "o", "n">>,
      <<"p", "a", "c", "k", "a", "g", "e", "-", "l", "o", "c", "k", ".", "j",
        "s", "o", "n">>,
      <<"p", "y", "p", "r", "o", "j", "e", "c", "t", ".", "t", "o", "m", "l">>>>

----------------------------------------------------------------------------
(* str methods *)

Upper == <<"A", "B", "C", "D", "E", "F", "G", "H", "I", "J", "K", "L", "M",
           "N", "O", "P", "Q", "R", "S", "T", "U", "V", "W", "X", "Y", "Z">>
LowerOf == <<"a", "b", "c", "d", "e", "f", "g", "h", "i", "j", "k", "l", "m",
             "n", "o", "p", "q", "r", "s", "t", "u", "v", "w", "x", "y", "z">>

Whitespace == {" ", "\n", "\t", "\r"}

LowerChar(c) ==
    IF \E i \in 1..Len(Upper) : Upper[i] = c
    THEN LowerOf[CHOOSE i \in 1..Len(Upper) : Upper[i] = c]
    ELSE c

\* s.lower()
Lower(s) == [i \in 1..Len(s) |-> LowerChar(s[i])]

\* s.endswith(suf)
EndsWith(s, suf) ==
    /\ Len(suf) <= Len(s)
    /\ SubSeq(s, Len(s) - Len(suf) + 1, Len(s)) = suf

\* s.startswith(pre)
StartsWith(s, pre) ==
    /\ Len(pre) <= Len(s)
    /\ SubSeq(s, 1, Len(pre)) = pre

\* sub in s
Contains(s, sub) ==
    \E i \in 1..(Len(s) + 1) :
        /\ i + Len(sub) - 1 <= Len(s)
        /\ SubSeq(s, i, i + Len(sub) - 1) = sub

\* s.strip()
Strip(s) ==
    LET keep == {i \in 1..Len(s) : s[i] \notin Whitespace}
    IN  IF keep = {} THEN <<>>
        ELSE LET lo == CHOOSE i \in keep : \A j \in keep : i <= j
                 hi == CHOOSE i \in keep : \A j \in keep : j <= i
             IN  SubSeq(s, lo, hi)

\* index of the first occurrence of character c in s, 0 when absent
Find(s, c) ==
    IF \E i \in 1..Len(s) : s[i] = c
    THEN CHOOSE i \in 1..Len(s) : s[i] = c /\ \A j \in 1..(i - 1) : s[j] # c
    ELSE 0

\* index of the last occurrence of character c in s, 0 when absent (rfind + 1)
RFind(s, c) ==
    IF \E i \in 1..Len(s) : s[i] = c
    THEN CHOOSE i \in 1..Len(s) : s[i] = c /\ \A j \in (i + 1)..Len(s) : s[j] # c
    ELSE 0

\* s.split(c): always at least one part, empty parts kept
RECURSIVE Split(_, _)
Split(s, c) ==
    LET k == Find(s, c)
    IN  IF k = 0 THEN <<s>>
        ELSE <<SubSeq(s, 1, k - 1)>> \o Split(SubSeq(s, k + 1, Len(s)), c)

\* s.split(c, 1): at most one split, at the first occurrence of c
Split1(s, c) ==
    LET k == Find(s, c)
    IN  IF k = 0 THEN <<s>>
        ELSE <<SubSeq(s, 1, k - 1), SubSeq(s, k + 1, Len(s))>>

\* c.join(parts)
RECURSIVE Join(_, _)
Join(parts, c) ==
    IF Len(parts) = 0 THEN <<>>
    ELSE IF Len(parts) = 1 THEN parts[1]
    ELSE parts[1] \o <<c>> \o Join(Tail(parts), c)

Digits == <<"0", "1", "2", "3", "4", "5", "6", "7", "8", "9">>

\* str(n) for n >= 0, as formatted into an f-string
RECURSIVE IntToStr(_)
IntToStr(n) ==
    IF n < 10 THEN <<Digits[n + 1]>>
    ELSE IntToStr(n \div 10) \o <<Digits[(n % 10) + 1]>>

\* os.path.basename(p): what follows the last "/"
Basename(p) == SubSeq(p, RFind(p, "/") + 1, Len(p))

\* os.path.splitext(p)[0]: cut at the last "." unless only dots precede it
\* in the last path component
SplitextRoot(p) ==
    LET sep == RFind(p, "/")
        dot == RFind(p, ".")
    IN  IF dot > sep /\ \E i \in (sep + 1)..(dot - 1) : p[i] # "."
        THEN SubSeq(p, 1, dot - 1)
        ELSE p

\* The readable TLA+ string of a character sequence
RECURSIVE Str(_)
Str(s) == IF s = <<>> THEN "" ELSE s[1] \o Str(Tail(s))

----------------------------------------------------------------------------
(* Inputs: what git reports as staged, and what the user types *)

\* README.md
F1 == <<"R", "E", "A", "D", "M", "E", ".", "m", "d">>
\* doc/Test.md
F2 == <<"d", "o", "c", "/", "T", "e", "s", "t", ".", "m", "d">>
\* a.py
F3 == <<"a", ".", "p", "y">>
\* tests/b.js
F4 == <<"t", "e", "s", "t", "s", "/", "b", ".", "j", "s">>
\* MyTEST.ts
F5 == <<"M", "y", "T", "E", "S", "T", ".", "t", "s">>
\* x/y.h
F6 == <<"x", "/", "y", ".", "h">>
\* package.json
F7 == <<"p", "a", "c", "k", "a", "g", "e", ".", "j", "s", "o", "n">>
\* .gitignore
F8 == <<".", "g", "i", "t", "i", "g", "n", "o", "r", "e">>
\* lib.tar.gz
F9 == <<"l", "i", "b", ".", "t", "a", "r", ".", "g", "z">>

\* Paths staged in the runs of main
FilePool == {F1, F2, F3, F4, F5, F6}

\* Paths given to the composer functions on their own
ComposerPool == FilePool \union {F7, F8, F9}

\* Lists of up to MaxFiles distinct paths
ListsOver(pool) ==
    UNION {{s \in [1..n -> pool] : \A i, j \in 1..n : i # j => s[i] # s[j]}
           : n \in 0..MaxFiles}

\* Staged lists git can report
StagedLists == ListsOver(FilePool)

\* Answers to the confirm prompt: "", "y", " YES ", "edit", " Edit ", "n",
\* "yess", "e"
ChoicePool == {<<>>, <<"y">>, <<" ", "Y", "E", "S", " ">>, EDIT,
               <<" ", "E", "d", "i", "t", " ">>, <<"n">>,
               <<"y", "e", "s", "s">>, <<"e">>}

\* Non-empty lines typed in the edit loop: "foo", "bar baz", " "
LinePool == {<<"f", "o", "o">>, <<"b", "a", "r", " ", "b", "a", "z">>,
             <<" ">>}

CommitTypes == {DOCS, TEST, FEAT, CHORE}

----------------------------------------------------------------------------
(* The functions of smart_commit.py *)

\* stdout of `git diff --cached --name-only`: one path per line
RECURSIVE GitStdout(_)
GitStdout(staged) ==
    IF staged = <<>> THEN <<>>
    ELSE staged[1] \o <<NL>> \o GitStdout(Tail(staged))

\* get_staged_files, given the captured stdout of the git call; the return
\* code of the call is not looked at
get_staged_files(stdout) ==
    SelectSeq(Split(Strip(stdout), NL), LAMBDA f : f # <<>>)

Return(v) == [exc |-> "none", ret |-> v]
Raise(e) == [exc |-> e, ret |-> <<>>]

\* any(f.endswith(ext) for ext in exts) on lines 21 and 23.  The loop
\* variable is ext; `f` is bound only inside the generators of lines 17 and
\* 19, so here it is a global name that nothing defines, and evaluating the
\* first element raises NameError.  Over an empty list any() is False.
AnyExtOfUnboundF(exts) ==
    IF exts = <<>> THEN Return(FALSE) ELSE Raise("NameError")

\* detect_commit_type(files): a label, or the exception it raises
detect_commit_type_rule2_first(fs) ==
    IF \E i \in 1..Len(fs) :
            Contains(Lower(fs[i]), TEST) \/ StartsWith(fs[i], TESTS)
    THEN Return(TEST)
    ELSE IF \A i \in 1..Len(fs) : EndsWith(fs[i], EXT_MD)
    THEN Return(DOCS)
    ELSE Raise("NameError")

detect_commit_type(fs) ==
    IF \A i \in 1..Len(fs) : EndsWith(fs[i], EXT_MD)
    THEN Return(DOCS)
    ELSE IF \E i \in 1..Len(fs) :
                Contains(Lower(fs[i]), TEST) \/ StartsWith(fs[i], TESTS)
    THEN Return(TEST)
    ELSE LET r3 == AnyExtOfUnboundF(SourceExts)
             r4 == AnyExtOfUnboundF(ManifestNames)
         IN  IF r3.exc # "none" THEN r3
             ELSE IF r3.ret THEN Return(FEAT)
             ELSE IF r4.exc # "none" THEN r4
             ELSE Return(CHORE)

generate_summary_full_path(ct, fs) ==
    IF Len(fs) = 1
    THEN ct \o <<"(">> \o SplitextRoot(fs[1]) \o <<")">> \o UPDATE \o fs[1]
    ELSE ct \o UPDATE \o IntToStr(Len(fs)) \o FILES_SUFFIX

generate_summary(ct, fs) ==
    IF Len(fs) = 1
    THEN LET filename == Basename(fs[1])
             name_without_ext == SplitextRoot(filename)
         IN  ct \o <<"(">> \o name_without_ext \o <<")">> \o UPDATE \o filename
    ELSE ct \o UPDATE \o IntToStr(Len(fs)) \o FILES_SUFFIX

generate_body(fs) ==
    Join([i \in 1..Len(fs) |-> MODIFIED \o fs[i]], NL)

Choice_no_strip(raw) == Lower(raw)

\* choice = input(...).strip().lower()
Choice(raw) == Lower(Strip(raw))

Accepts(raw) == Choice(raw) \in {<<>>, <<"y">>, YES}
Edits_by_prefix(raw) == StartsWith(Choice(raw), <<"e">>)

Edits(raw) == Choice(raw) = EDIT

EditedMessage_unsplit(ls) == [title |-> Join(ls, NL), body |-> <<>>]

\* confirm_message, lines 60-65: the edited title and body
EditedMessage(ls) ==
    LET full_message == Join(ls, NL)
        parts == Split1(full_message, NL)
    IN  [title |-> parts[1],
         body |-> IF Len(parts) > 1 THEN parts[2] ELSE <<>>]

CommitCmd_no_strip(t, b) ==
    IF b # <<>>
    THEN <<GIT, COMMIT, DASH_M, t, DASH_M, b>>
    ELSE <<GIT, COMMIT, DASH_M, t>>

\* run_commit, lines 72-74: the argument vector of the commit call
CommitCmd(t, b) ==
    IF Strip(b) # <<>>
    THEN <<GIT, COMMIT, DASH_M, t, DASH_M, b>>
    ELSE <<GIT, COMMIT, DASH_M, t>>

----------------------------------------------------------------------------
(* The run of main() *)

Init ==
    /\ pc = "start"
    /\ listStatus = "none"
    /\ files = <<>>
    /\ commit_type = <<>>
    /\ title = <<>>
    /\ body = <<>>
    /\ lines = <<>>
    /\ consumed = <<>>
    /\ out = <<>>
    /\ exitCode = -1
    /\ exc = "none"
    /\ listCalls = 0
    /\ commitCalls = 0
    /\ cmd = <<>>

\* An exception nobody catches: traceback, exit status 1
Uncaught(e) ==
    /\ exc' = e
    /\ exitCode' = 1
    /\ pc' = "done"

\* main line 82: the git call either cannot be started (binary missing),
\* exits non-zero with nothing on stdout, or lists the staged paths
Main_List ==
    /\ pc = "start"
    /\ listCalls' = listCalls + 1
    /\ \E status \in {"ok", "fail", "missing"} :
        /\ listStatus' = status
        /\ \/ /\ status = "missing"
              /\ Uncaught("FileNotFoundError")
              /\ UNCHANGED files
           \/ /\ status = "fail"
              /\ files' = get_staged_files(<<>>)
              /\ pc' = "listed"
              /\ UNCHANGED <<exc, exitCode>>
           \/ /\ status = "ok"
              /\ \E staged \in StagedLists :
                    files' = get_staged_files(GitStdout(staged))
              /\ pc' = "listed"
              /\ UNCHANGED <<exc, exitCode>>
    /\ UNCHANGED <<commit_type, title, body, lines, consumed, out,
                   commitCalls, cmd>>

Main_NoStaged_exit0 ==
    /\ pc = "listed"
    /\ files = <<>>
    /\ out' = Append(out, "no_staged_warning")
    /\ exitCode' = 0
    /\ pc' = "done"
    /\ UNCHANGED <<listStatus, files, commit_type, title, body, lines,
                   consumed, exc, listCalls, commitCalls, cmd>>

\* main lines 83-85
Main_NoStaged ==
    /\ pc = "listed"
    /\ files = <<>>
    /\ out' = Append(out, "no_staged_warning")
    /\ exitCode' = 1
    /\ pc' = "done"
    /\ UNCHANGED <<listStatus, files, commit_type, title, body, lines,
                   consumed, exc, listCalls, commitCalls, cmd>>

\* main line 87
Main_Detect ==
    /\ pc = "listed"
    /\ files # <<>>
    /\ LET r == detect_commit_type(files)
       IN  \/ /\ r.exc = "none"
              /\ commit_type' = r.ret
              /\ pc' = "typed"
              /\ UNCHANGED <<exc, exitCode>>
           \/ /\ r.exc # "none"
              /\ Uncaught(r.exc)
              /\ UNCHANGED commit_type
    /\ UNCHANGED <<listStatus, files, title, body, lines, consumed, out,
                   listCalls, commitCalls, cmd>>

\* main lines 88-89
Main_Compose ==
    /\ pc = "typed"
    /\ title' = generate_summary(commit_type, files)
    /\ body' = generate_body(files)
    /\ pc' = "confirm"
    /\ UNCHANGED <<listStatus, files, commit_type, lines, consumed, out,
                   exitCode, exc, listCalls, commitCalls, cmd>>

\* confirm_message lines 43-54 and 66-68: show the message, read the choice
confirm_message ==
    /\ pc = "confirm"
    /\ \/ /\ out' = Append(out, "suggested")
          /\ Uncaught("EOFError")
          /\ UNCHANGED <<lines, consumed>>
       \/ \E raw \in ChoicePool :
            /\ consumed' = Append(consumed, raw)
            /\ \/ /\ Accepts(raw)
                  /\ out' = Append(out, "suggested")
                  /\ pc' = "commit"
                  /\ UNCHANGED <<lines, exitCode, exc>>
               \/ /\ ~Accepts(raw)
                  /\ Edits(raw)
                  /\ out' = out \o <<"suggested", "edit_prompt">>
                  /\ lines' = <<>>
                  /\ pc' = "editing"
                  /\ UNCHANGED <<exitCode, exc>>
               \/ /\ ~Accepts(raw)
                  /\ ~Edits(raw)
                  /\ out' = out \o <<"suggested", "canceled">>
                  /\ exitCode' = 0
                  /\ pc' = "done"
                  /\ UNCHANGED <<lines, exc>>
    /\ UNCHANGED <<listStatus, files, commit_type, title, body, listCalls,
                   commitCalls, cmd>>

\* confirm_message lines 55-65: one pass of the edit loop; the empty line
\* leaves the loop and returns the edited title and body
confirm_edit ==
    /\ pc = "editing"
    /\ \/ /\ Uncaught("EOFError")
          /\ UNCHANGED <<title, body, lines, consumed>>
       \/ /\ consumed' = Append(consumed, <<>>)
          /\ title' = EditedMessage(lines).title
          /\ body' = EditedMessage(lines).body
          /\ pc' = "commit"
          /\ UNCHANGED <<lines, exitCode, exc>>
       \/ /\ Len(lines) < MaxLines
          /\ \E line \in LinePool :
                /\ consumed' = Append(consumed, line)
                /\ lines' = Append(lines, line)
          /\ UNCHANGED <<title, body, pc, exitCode, exc>>
    /\ UNCHANGED <<listStatus, files, commit_type, out, listCalls,
                   commitCalls, cmd>>

run_commit_retry ==
    /\ pc = "commit"
    /\ cmd' = CommitCmd(title, body)
    /\ commitCalls' = commitCalls + 1
    /\ \E returncode \in {0, 1} :
          /\ out' = Append(out, IF returncode = 0 THEN "commit_created"
                                                  ELSE "commit_failed")
          /\ IF returncode = 0
             THEN exitCode' = 0 /\ pc' = "done"
             ELSE UNCHANGED <<exitCode, pc>>
    /\ UNCHANGED <<listStatus, files, commit_type, title, body, lines,
                   consumed, exc, listCalls>>

\* run_commit, then main returns: exit status 0 whatever git returned
run_commit ==
    /\ pc = "commit"
    /\ cmd' = CommitCmd(title, body)
    /\ commitCalls' = commitCalls + 1
    /\ \E returncode \in {0, 1} :
          out' = Append(out, IF returncode = 0 THEN "commit_created"
                                               ELSE "commit_failed")
    /\ exitCode' = 0
    /\ pc' = "done"
    /\ UNCHANGED <<listStatus, files, commit_type, title, body, lines,
                   consumed, exc, listCalls>>

Next ==
    \/ Main_List
    \/ Main_NoStaged
    \/ Main_Detect
    \/ Main_Compose
    \/ confirm_message
    \/ confirm_edit
    \/ run_commit

Spec == Init /\ [][Next]_vars

----------------------------------------------------------------------------
(* The composer functions on their own, over every staged list and label *)

PureInit ==
    /\ pc = "pure"
    /\ listStatus = "none"
    /\ files \in ListsOver(ComposerPool) \ {<<>>}
    /\ commit_type \in CommitTypes
    /\ title = <<>>
    /\ body = <<>>
    /\ lines = <<>>
    /\ consumed = <<>>
    /\ out = <<>>
    /\ exitCode = -1
    /\ exc = "none"
    /\ listCalls = 0
    /\ commitCalls = 0
    /\ cmd = <<>>

Pure_Summary ==
    /\ pc = "pure"
    /\ title' = generate_summary(commit_type, files)
    /\ pc' = "pure_title"
    /\ UNCHANGED <<listStatus, files, commit_type, body, lines, consumed, out,
                   exitCode, exc, listCalls, commitCalls, cmd>>

Pure_Body ==
    /\ pc = "pure_title"
    /\ body' = generate_body(files)
    /\ pc' = "pure_done"
    /\ UNCHANGED <<listStatus, files, commit_type, title, lines, consumed,
                   out, exitCode, exc, listCalls, commitCalls, cmd>>

PureNext == Pure_Summary \/ Pure_Body

PureSpec == PureInit /\ [][PureNext]_vars

----------------------------------------------------------------------------
(* Vocabulary of the properties *)

Elems(s) == {s[i] : i \in DOMAIN s}

Last(s) == s[Len(s)]

\* The list call returned and main went past line 82
Listed == pc # "start" /\ listStatus \in {"ok", "fail"}

\* detect_commit_type has been called on a non-empty list
Detected == Listed /\ files # <<>> /\ pc # "listed"

AllDocs(fs) == \A i \in 1..Len(fs) : EndsWith(fs[i], EXT_MD)

AnyTestToken(fs) ==
    \E i \in 1..Len(fs) :
        \/ \E k \in 1..Len(fs[i]) :
                /\ k + 3 <= Len(fs[i])
                /\ Lower(SubSeq(fs[i], k, k + 3)) = TEST
        \/ StartsWith(fs[i], TESTS)

AnySourceExt(fs) ==
    \E i \in 1..Len(fs) : \E e \in 1..Len(SourceExts) :
        EndsWith(fs[i], SourceExts[e])

\* The answer to the confirm prompt, trimmed and lower-cased
Answered == Len(consumed) >= 1
Answer == Lower(Strip(consumed[1]))
AcceptAnswers == {<<>>, <<"y">>, YES}

Blank(b) == \A i \in 1..Len(b) : b[i] \in Whitespace

----------------------------------------------------------------------------
(* Properties *)

\* C1: when the staged list is empty, main prints the no-staged-changes
\* warning and exits with status 1; the confirm prompt is never shown, no
\* input is read and git commit is never run.
C1_NoStagedExits1 ==
    (Listed /\ files = <<>>) =>
        /\ pc \in {"listed", "done"}
        /\ commitCalls = 0
        /\ cmd = <<>>
        /\ consumed = <<>>
        /\ "suggested" \notin Elems(out)
        /\ pc = "done" =>
            /\ out = <<"no_staged_warning">>
            /\ exitCode = 1
            /\ exc = "none"

C1_Witness ==
    /\ listStatus = "ok"
    /\ files = <<>>
    /\ pc = "done"
    /\ out = <<"no_staged_warning">>
    /\ exitCode = 1

\* C2: for a non-empty staged list that is not all-.md and has no test
\* token, if some name ends in .py/.js/.ts/.cpp/.h then detect_commit_type
\* returns normally with the label feat.
C2_SourceGivesFeat ==
    (Detected /\ ~AllDocs(files) /\ ~AnyTestToken(files)
              /\ AnySourceExt(files)) =>
        /\ exc # "NameError"
        /\ commit_type = FEAT

\* C3: a non-empty list with a test token that is not all-.md is classified
\* test, also when it holds source files; an all-.md list is classified
\* docs, also when a path contains a test token.
C3_DocsThenTest ==
    Detected =>
        /\ AllDocs(files) => (exc # "NameError" /\ commit_type = DOCS)
        /\ (~AllDocs(files) /\ AnyTestToken(files)) =>
                (exc # "NameError" /\ commit_type = TEST)

C3_Witness ==
    /\ pc = "typed"
    /\ ~AllDocs(files)
    /\ AnyTestToken(files)
    /\ AnySourceExt(files)
    /\ \E i \in 1..Len(files) : EndsWith(files[i], EXT_MD)
    /\ commit_type = TEST

\* C4: a failed list call (git exits non-zero, or the binary is missing)
\* ends the run in a fatal error, never in the no-staged-changes warning
\* with exit status 1.
C4_FailedListIsFatal ==
    (listStatus \in {"fail", "missing"} /\ pc = "done") =>
        /\ exc # "none"
        /\ "no_staged_warning" \notin Elems(out)

\* C5: a confirm prompt answered "", "y" or "yes" (trimmed, lower-cased)
\* leaves the composed title and body unchanged, reads no further input,
\* and git commit is run with exactly that title and body.
C5_AcceptKeepsMessage ==
    (Answered /\ Answer \in AcceptAnswers) =>
        /\ pc \in {"commit", "done"}
        /\ exc = "none"
        /\ Len(consumed) = 1
        /\ title = generate_summary(commit_type, files)
        /\ body = generate_body(files)
        /\ pc = "done" =>
            /\ commitCalls = 1
            /\ cmd = <<GIT, COMMIT, DASH_M, generate_summary(commit_type, files),
                       DASH_M, generate_body(files)>>

C5_Witness ==
    /\ pc = "done"
    /\ consumed = <<<<" ", "Y", "E", "S", " ">>>>
    /\ commitCalls = 1
    /\ Len(files) = 2
    /\ cmd[4] = title

\* C6: after the answer edit, lines are read up to the first empty line;
\* the title is the first collected line and the body the remaining ones
\* joined by newlines (both empty when nothing was collected); "foo",
\* "bar baz", "" give title foo and body bar baz; nothing is read after the
\* empty line and the composed title and body are not used.
C6_EditReplacesMessage ==
    (Answered /\ Answer = EDIT
              /\ (pc = "commit" \/ (pc = "done" /\ exc = "none"))) =>
        LET typed == SubSeq(consumed, 2, Len(consumed) - 1)
        IN  /\ Len(consumed) >= 2
            /\ Last(consumed) = <<>>
            /\ \A i \in 1..Len(typed) : typed[i] # <<>>
            /\ typed = <<>> => (title = <<>> /\ body = <<>>)
            /\ Len(typed) = 1 => (title = typed[1] /\ body = <<>>)
            /\ Len(typed) >= 1 =>
                    (title = typed[1] /\ body = Join(Tail(typed), NL))
            /\ (Len(typed) = 2 /\ Str(typed[1]) = "foo"
                               /\ Str(typed[2]) = "bar baz") =>
                    (Str(title) = "foo" /\ Str(body) = "bar baz")
            /\ pc = "done" => (commitCalls = 1 /\ cmd[4] = title)

C6_Witness ==
    /\ pc = "done"
    /\ Answered
    /\ Answer = EDIT
    /\ Len(consumed) = 5
    /\ Str(title) = "foo"
    /\ Str(body) = "bar baz\n "
    /\ title # generate_summary(commit_type, files)

\* C7: any answer other than "", "y", "yes" or "edit" (trimmed, lower-cased)
\* cancels: the cancellation notice is printed, the exit status is 0, and
\* git commit is never run.
C7_OtherAnswerCancels ==
    (Answered /\ Answer \notin (AcceptAnswers \union {EDIT})) =>
        /\ pc = "done"
        /\ exc = "none"
        /\ exitCode = 0
        /\ out = <<"suggested", "canceled">>
        /\ commitCalls = 0
        /\ cmd = <<>>
        /\ Len(consumed) = 1

C7_Witness ==
    /\ pc = "done"
    /\ consumed = <<<<"e">>>>
    /\ exitCode = 0
    /\ Last(out) = "canceled"

\* C8: the list call is made exactly once per run; git commit is run at
\* most once, only after a non-empty list and an accept or edit answer; a
\* failed commit is followed by the failure notice and termination only.
C8_NoRetry ==
    /\ listCalls <= 1
    /\ pc # "start" => listCalls = 1
    /\ commitCalls <= 1
    /\ commitCalls = 1 =>
        /\ listStatus = "ok"
        /\ files # <<>>
        /\ Answered
        /\ Answer \in (AcceptAnswers \union {EDIT})
        /\ pc = "done"
        /\ Last(out) \in {"commit_created", "commit_failed"}
    /\ "commit_failed" \in Elems(out) =>
        /\ pc = "done"
        /\ commitCalls = 1
        /\ Last(out) = "commit_failed"
        /\ Cardinality({i \in 1..Len(out) : out[i] = "commit_failed"}) = 1

C8_Witness ==
    /\ pc = "done"
    /\ listCalls = 1
    /\ commitCalls = 1
    /\ Last(out) = "commit_failed"

\* C9: git commit always gets the title as its first -m argument, and the
\* body as a second -m argument exactly when the body is not blank; an
\* edited message with a blank body, or with no lines at all, is committed
\* with the (possibly empty) title only.
C9_BodyArgIffNonBlank ==
    commitCalls = 1 =>
        /\ SubSeq(cmd, 1, 4) = <<GIT, COMMIT, DASH_M, title>>
        /\ IF Blank(body)
           THEN Len(cmd) = 4
           ELSE Len(cmd) = 6 /\ cmd[5] = DASH_M /\ cmd[6] = body
        /\ (Answer = EDIT /\ Len(consumed) = 2) => cmd = <<GIT, COMMIT, DASH_M, <<>>>>

C9_Witness ==
    /\ commitCalls = 1
    /\ Answer = EDIT
    /\ body # <<>>
    /\ Blank(body)
    /\ Len(cmd) = 4

\* C10: for one staged file the title is
\* "{type}({basename without extension}): update {basename}", the directory
\* part dropped; for more than one it is "{type}: update {N} files".
IsBasename(b, p) ==
    /\ EndsWith(p, b)
    /\ "/" \notin Elems(b)
    /\ Len(b) = Len(p) \/ p[Len(p) - Len(b)] = "/"

\* b is st followed by its extension: the last dot and what follows it,
\* unless the dot only has dots before it
IsStem(st, b) ==
    LET ext == SubSeq(b, Len(st) + 1, Len(b))
    IN  /\ StartsWith(b, st)
        /\ \/ /\ ext = <<>>
              /\ \A i \in 1..Len(b) :
                    b[i] = "." => \A j \in 1..i : b[j] = "."
           \/ /\ ext # <<>>
              /\ ext[1] = "."
              /\ "." \notin Elems(Tail(ext))
              /\ \E j \in 1..Len(st) : st[j] # "."

C10_TitleFormat ==
    /\ pc \in {"pure_title", "pure_done"} =>
        /\ Len(files) = 1 =>
            \E k \in 1..Len(files[1]) :
                LET b == SubSeq(files[1], k, Len(files[1]))
                IN  /\ IsBasename(b, files[1])
                    /\ \E m \in 1..Len(b) :
                          LET st == SubSeq(b, 1, m)
                          IN  /\ IsStem(st, b)
                              /\ Str(title) = Str(commit_type) \o "("
                                    \o Str(st) \o "): update " \o Str(b)
        /\ Len(files) > 1 =>
            Str(title) = Str(commit_type) \o ": update "
                         \o ToString(Len(files)) \o " files"
    /\ Str(generate_summary(DOCS, <<F1>>)) = "docs(README): update README.md"
    /\ Str(generate_summary(FEAT, <<F3, <<"b", ".", "p", "y">>,
                                    <<"c", ".", "p", "y">>>>))
            = "feat: update 3 files"

C10_Witness ==
    /\ pc = "pure_title"
    /\ commit_type = FEAT
    /\ files = <<F6>>
    /\ Str(title) = "feat(y): update y.h"

====
